---- MODULE Spec2Model ----
(***************************************************************************)
(* folly::Arena (folly/memory/Arena-inl.h): block acquisition, bump        *)
(* allocation, merge and destruction, over a finite address space and a    *)
(* finite machine word.                                                    *)
(***************************************************************************)
EXTENDS Integers, Sequences, FiniteSets, TLC

\* ------------------------------------------------------------------ bounds
\* Width of size_t in bits; sizes and totals are computed modulo 2^WordBits.
WordBits == 4
\* Number of addressable bytes the backing allocator can hand out (1..MemSize).
MemSize == 7
\* Largest number of extra bytes goodSize may add to a request.
MaxSlack == 1
\* Largest ordinary request size; requests also include the word maximum.
MaxSize == 3

\* ------------------------------------------------------- program constants
\* sizeof(Block): the intrusive list hook that prefixes every block.
HeaderSize == 1
\* The sentinel of sizeLimit_ meaning "no limit".
kNoSizeLimit == 0

Word == 2 ^ WordBits
WordMax == Word - 1
NULL == 0

Arenas == {"A", "B"}
Addr == 1 .. MemSize
Sizes == (0 .. MaxSize) \cup {WordMax}
\* Configurations an arena is constructed with.
MinBlockSizes == {2}
SizeLimits == {kNoSizeLimit, 3}

Max(x, y) == IF x >= y THEN x ELSE y
Min(x, y) == IF x <= y THEN x ELSE y

VARIABLES
  pc,                   \* per arena: "live", "destroying" (in ~Arena), "dead"
  minBlockSize_,        \* per arena: configured standard block capacity
  sizeLimit_,           \* per arena: configured limit, or kNoSizeLimit
  ptr_,                 \* per arena: bump pointer, NULL when none
  end_,                 \* per arena: end of the bump window, NULL when none
  totalAllocatedSize_,  \* per arena: accounted bytes
  blocks_,              \* per arena: the block list, front first
  heap,                 \* blocks the backing allocator has handed out and not got back
  doubleFree,           \* a block was handed to deallocate while not in heap
  hist,                 \* whether the ranges handed to callers are recorded
  allocs,               \* per arena: the (pointer, size) ranges handed to callers
  pending,              \* per arena: blocks owned when ~Arena began, not yet deallocated
  last                  \* the operation that produced this state

vars == <<pc, minBlockSize_, sizeLimit_, ptr_, end_, totalAllocatedSize_,
          blocks_, heap, doubleFree, hist, allocs, pending, last>>

\* ------------------------------------------------------------------ blocks
\* A block is [base, usable, big]: it occupies base .. base+HeaderSize+usable-1.
BlockStart(b) == b.base + HeaderSize
BlockEnd(b) == b.base + HeaderSize + b.usable
BlockBytes(b) == {x \in Addr : b.base <= x /\ x < BlockEnd(b)}
BlockSet(s) == {s[i] : i \in 1 .. Len(s)}

RECURSIVE SumBlocks(_)
SumBlocks(s) ==
  IF s = <<>> THEN 0 ELSE Head(s).usable + HeaderSize + SumBlocks(Tail(s))

\* Variant: plain addition, which wraps silently.
checked_add_Wraps(x, y) == [ok |-> TRUE, val |-> (x + y) % Word]

\* checked_add: the sum and whether it fits the word.
checked_add(x, y) == [ok |-> x + y < Word, val |-> (x + y) % Word]

\* ArenaAllocatorTraits::goodSize: any size >= the request (within the word).
goodSize(n) == n .. Min(n + MaxSlack, WordMax)

\* The backing allocator's allocate(n): any base whose n bytes are free.
BackingAllocate(n) ==
  {b \in Addr : /\ b + n - 1 <= MemSize
                /\ \A blk \in heap : BlockBytes(blk) \cap (b .. b + n - 1) = {}}

\* Block::allocate(alloc, size, allowSlack): the blocks it may return.  A block
\* allocated without slack is a dedicated ("big") one.
BlockAllocate(size, allowSlack) ==
  LET sizes == IF allowSlack THEN goodSize(HeaderSize + size)
                             ELSE {HeaderSize + size}
  IN UNION {{[base |-> b, usable |-> n - HeaderSize, big |-> ~allowSlack] :
               b \in BackingAllocate(n)} : n \in sizes}

\* Block::deallocate(alloc): the heap after the block is handed back.
BlockDeallocate(blk) == heap \ {blk}

\* The ranges handed to callers, with [p, p+n) added; an empty range holds no byte.
\* A range handed out a second time is recorded as such (again).
Handed(a, p, n) ==
  IF hist /\ n > 0
  THEN allocs[a] \cup
         {[p |-> p, n |-> n, again |-> \E r \in allocs[a] : r.p = p /\ r.n = n]}
  ELSE allocs[a]

\* ------------------------------------------------------------ allocateSlow
\* allocSize = max(size, minBlockSize()) + sizeof(Block), overflow-checked.
AllocSize(a, size) == checked_add(Max(size, minBlockSize_[a]), HeaderSize)

\* The limit test; the subtraction is unsigned, so it wraps.
LimitExceeded(a, allocSize) ==
  /\ sizeLimit_[a] # kNoSizeLimit
  /\ allocSize > (sizeLimit_[a] - totalAllocatedSize_[a] + Word) % Word

\* Which branch a request takes.
IsBig(a, size) == size > minBlockSize_[a]

\* Variant: every new block is appended at the back.
LinkBlock_AlwaysBack(a, size, blk) == Append(blocks_[a], blk)

\* Variant: every new block is pushed to the front.
LinkBlock_AlwaysFront(a, size, blk) == <<blk>> \o blocks_[a]

\* The block list after the new block is linked in.
LinkBlock(a, size, blk) ==
  IF IsBig(a, size) THEN Append(blocks_[a], blk) ELSE <<blk>> \o blocks_[a]

\* Variant: the big branch moves the bump pointer into the dedicated block too.
SlowPtr_BigMovesWindow(a, size, blk) == BlockStart(blk) + size

\* Variant: the normal branch does not carve the request out of the new block.
SlowPtr_NoCarve(a, size, blk) ==
  IF IsBig(a, size) THEN ptr_[a] ELSE BlockStart(blk)

\* ptr_ after the new block is linked in.
SlowPtr(a, size, blk) ==
  IF IsBig(a, size) THEN ptr_[a] ELSE BlockStart(blk) + size

\* Variant: end_ is set to the start of the new block's data.
SlowEnd_AtStart(a, size, blk) ==
  IF IsBig(a, size) THEN end_[a] ELSE BlockStart(blk)

\* Variant: end_ is set from minBlockSize, ignoring the slack the block was given.
SlowEnd_NoSlack(a, size, blk) ==
  IF IsBig(a, size) THEN end_[a] ELSE BlockStart(blk) + minBlockSize_[a]

\* end_ after the new block is linked in.
SlowEnd(a, size, blk) ==
  IF IsBig(a, size) THEN end_[a] ELSE BlockStart(blk) + blk.usable

\* Variant: the header is left out of the accounting.
SlowTotal_NoHeader(a, blk) == (totalAllocatedSize_[a] + blk.usable) % Word

\* totalAllocatedSize_ += p.second + sizeof(Block)
SlowTotal(a, blk) == (totalAllocatedSize_[a] + blk.usable + HeaderSize) % Word

\* Variant: the block is accounted for before Block::allocate is called.
ThrowTotal_Eager(a, size) ==
  (totalAllocatedSize_[a] + Max(size, minBlockSize_[a]) + HeaderSize) % Word

\* totalAllocatedSize_ when allocateSlow leaves by an exception, which is before
\* the statement that updates it.
ThrowTotal(a, size) == totalAllocatedSize_[a]

\* No destructor is running: the arena is used by one thread, and ~Arena runs
\* to completion before anything else happens.
Quiescent == \A a \in Arenas : pc[a] # "destroying"

\* What the last operation was: op on arena a (other: the arena merged in), the
\* size asked for, the path taken, how it ended and the pointer it returned.
Result(op, a, other, size, path, res, ret) ==
  [op |-> op, a |-> a, other |-> other, size |-> size, path |-> path,
   res |-> res, ret |-> ret]

\* allocateSlow throwing std::bad_alloc (res says from where).
Throw(a, size, res) ==
  /\ totalAllocatedSize_' = [totalAllocatedSize_ EXCEPT ![a] = ThrowTotal(a, size)]
  /\ last' = Result("allocate", a, a, size, "slow", res, NULL)
  /\ UNCHANGED <<pc, minBlockSize_, sizeLimit_, ptr_, end_, blocks_, heap,
                 doubleFree, hist, allocs, pending>>

\* allocateSlow returning the start of the new block blk.
Acquire(a, size, blk) ==
  /\ blocks_' = [blocks_ EXCEPT ![a] = LinkBlock(a, size, blk)]
  /\ ptr_' = [ptr_ EXCEPT ![a] = SlowPtr(a, size, blk)]
  /\ end_' = [end_ EXCEPT ![a] = SlowEnd(a, size, blk)]
  /\ totalAllocatedSize_' = [totalAllocatedSize_ EXCEPT ![a] = SlowTotal(a, blk)]
  /\ heap' = heap \cup {blk}
  /\ allocs' = [allocs EXCEPT ![a] = Handed(a, BlockStart(blk), size)]
  /\ last' = Result("allocate", a, a, size, "slow", "ok", BlockStart(blk))
  /\ UNCHANGED <<pc, minBlockSize_, sizeLimit_, doubleFree, hist, pending>>

allocateSlow(a, size) ==
  LET s == AllocSize(a, size) IN
  IF ~s.ok THEN Throw(a, size, "overflow")
  ELSE IF LimitExceeded(a, s.val) THEN Throw(a, size, "limit")
  ELSE \/ Throw(a, size, "oom")
       \/ \E blk \in BlockAllocate(Max(size, minBlockSize_[a]), ~IsBig(a, size)) :
            Acquire(a, size, blk)

\* ---------------------------------------------------------------- allocate
\* The fast path applies: the bump window exists and holds size bytes.
FastFits(a, size) == ptr_[a] # NULL /\ end_[a] - ptr_[a] >= size

allocateFast(a, size) ==
  /\ ptr_' = [ptr_ EXCEPT ![a] = @ + size]
  /\ allocs' = [allocs EXCEPT ![a] = Handed(a, ptr_[a], size)]
  /\ last' = Result("allocate", a, a, size, "fast", "ok", ptr_[a])
  /\ UNCHANGED <<pc, minBlockSize_, sizeLimit_, end_, totalAllocatedSize_,
                 blocks_, heap, doubleFree, hist, pending>>

allocate(a, size) ==
  /\ Quiescent
  /\ pc[a] = "live"
  /\ IF FastFits(a, size) THEN allocateFast(a, size) ELSE allocateSlow(a, size)

\* ------------------------------------------------------------------- merge
\* Variant: the donor's blocks are spliced in at the back.
SpliceThis_AtBack(a, b) == blocks_[a] \o blocks_[b]

\* blocks_.splice_after(blocks_.before_begin(), other.blocks_): this list.
SpliceThis(a, b) == blocks_[b] \o blocks_[a]

\* Variant: the blocks are copied to the recipient and the donor keeps its list.
SpliceOther_Keeps(a, b) == blocks_[b]

\* The donor's list after the splice and clear().
SpliceOther(a, b) == <<>>

\* totalAllocatedSize_ += other.totalAllocatedSize_
MergeTotal(a, b) == (totalAllocatedSize_[a] + totalAllocatedSize_[b]) % Word

\* Variant: the donor's total is not reset.
MergeOtherTotal_Kept(a, b) == totalAllocatedSize_[b]

\* other.totalAllocatedSize_ = 0
MergeOtherTotal(a, b) == 0

\* Variant: the donor keeps its bump window.
MergeOtherWindow_Kept(a, b) == [ptr |-> ptr_[b], end |-> end_[b]]

\* other.ptr_ = other.end_ = nullptr
MergeOtherWindow(a, b) == [ptr |-> NULL, end |-> NULL]

\* Variant: the recipient takes over the donor's bump window.
MergeThisWindow_Adopts(a, b) ==
  IF ptr_[b] # NULL THEN [ptr |-> ptr_[b], end |-> end_[b]]
                    ELSE [ptr |-> ptr_[a], end |-> end_[a]]

\* The recipient's ptr_ and end_, which merge does not assign.
MergeThisWindow(a, b) == [ptr |-> ptr_[a], end |-> end_[a]]

merge(a, b) ==
  /\ Quiescent
  /\ a # b
  /\ pc[a] = "live" /\ pc[b] = "live"
  /\ blocks_' = [blocks_ EXCEPT ![a] = SpliceThis(a, b), ![b] = SpliceOther(a, b)]
  /\ ptr_' = [ptr_ EXCEPT ![a] = MergeThisWindow(a, b).ptr,
                          ![b] = MergeOtherWindow(a, b).ptr]
  /\ end_' = [end_ EXCEPT ![a] = MergeThisWindow(a, b).end,
                          ![b] = MergeOtherWindow(a, b).end]
  /\ totalAllocatedSize_' =
       [totalAllocatedSize_ EXCEPT ![a] = MergeTotal(a, b),
                                   ![b] = MergeOtherTotal(a, b)]
  /\ allocs' = [allocs EXCEPT ![a] = allocs[a] \cup allocs[b], ![b] = {}]
  /\ last' = Result("merge", a, b, 0, "none", "ok", NULL)
  /\ UNCHANGED <<pc, minBlockSize_, sizeLimit_, heap, doubleFree, hist, pending>>

\* ------------------------------------------------------------------ ~Arena
\* The destructor is entered.
DtorBegin(a) ==
  /\ Quiescent
  /\ pc[a] = "live"
  /\ pc' = [pc EXCEPT ![a] = "destroying"]
  /\ pending' = [pending EXCEPT ![a] = BlockSet(blocks_[a])]
  /\ allocs' = [allocs EXCEPT ![a] = {}]
  /\ last' = Result("dtor_begin", a, a, 0, "none", "none", NULL)
  /\ UNCHANGED <<minBlockSize_, sizeLimit_, ptr_, end_, totalAllocatedSize_,
                 blocks_, heap, doubleFree, hist>>

\* Variant: the block after the front one is unlinked with it, undisposed.
PopFront_SkipsOne(a) ==
  IF Len(blocks_[a]) >= 2 THEN Tail(Tail(blocks_[a])) ELSE Tail(blocks_[a])

\* The list after pop_front_and_dispose.
PopFront(a) == Tail(blocks_[a])

\* One iteration of the loop: blocks_.pop_front_and_dispose(disposer).
DtorStep(a) ==
  /\ pc[a] = "destroying"
  /\ blocks_[a] # <<>>
  /\ LET blk == Head(blocks_[a]) IN
       /\ heap' = BlockDeallocate(blk)
       /\ doubleFree' = (doubleFree \/ blk \notin heap)
       /\ pending' = [pending EXCEPT ![a] = @ \ {blk}]
  /\ blocks_' = [blocks_ EXCEPT ![a] = PopFront(a)]
  /\ last' = Result("dtor_step", a, a, 0, "none", "none", NULL)
  /\ UNCHANGED <<pc, minBlockSize_, sizeLimit_, ptr_, end_, totalAllocatedSize_,
                 hist, allocs>>

\* The loop condition fails and the destructor returns.  The object is gone:
\* its fields hold no value any more, which is written as NULL and 0.
DtorEnd(a) ==
  /\ pc[a] = "destroying"
  /\ blocks_[a] = <<>>
  /\ pc' = [pc EXCEPT ![a] = "dead"]
  /\ ptr_' = [ptr_ EXCEPT ![a] = NULL]
  /\ end_' = [end_ EXCEPT ![a] = NULL]
  /\ totalAllocatedSize_' = [totalAllocatedSize_ EXCEPT ![a] = 0]
  /\ last' = Result("dtor_end", a, a, 0, "none", "none", NULL)
  /\ UNCHANGED <<minBlockSize_, sizeLimit_, blocks_, heap, doubleFree, hist, allocs,
                 pending>>

\* --------------------------------------------------------- specifications
NoOp == Result("init", "A", "A", 0, "none", "none", NULL)

\* The arenas as constructed, with limits the size limits they may be given.
Constructed(limits) ==
  /\ pc = [a \in Arenas |-> "live"]
  /\ minBlockSize_ \in [Arenas -> MinBlockSizes]
  /\ sizeLimit_ \in [Arenas -> limits]
  /\ ptr_ = [a \in Arenas |-> NULL]
  /\ end_ = [a \in Arenas |-> NULL]
  /\ totalAllocatedSize_ = [a \in Arenas |-> 0]
  /\ blocks_ = [a \in Arenas |-> <<>>]
  /\ heap = {}
  /\ doubleFree = FALSE
  /\ allocs = [a \in Arenas |-> {}]
  /\ pending = [a \in Arenas |-> {}]
  /\ last = NoOp

Init == Constructed(SizeLimits) /\ hist = FALSE

\* Arenas without a size limit, with every range handed to a caller recorded.
InitHist == Constructed({kNoSizeLimit}) /\ hist = TRUE

Next ==
  \/ \E a \in Arenas, size \in Sizes : allocate(a, size)
  \/ \E a \in Arenas, b \in Arenas : merge(a, b)
  \/ \E a \in Arenas : DtorBegin(a)
  \/ \E a \in Arenas : DtorStep(a)
  \/ \E a \in Arenas : DtorEnd(a)

Spec == Init /\ [][Next]_vars

SpecHist == InitHist /\ [][Next]_vars

\* The destructor, once entered, runs to completion.
FairSpec ==
  Spec /\ \A a \in Arenas : WF_vars(DtorStep(a)) /\ WF_vars(DtorEnd(a))

\* ------------------------------------------------------------------ claims
\* The step just taken was allocate, seen through the record it leaves.
Allocated == last'.op = "allocate"
AllocatedOk == Allocated /\ last'.res = "ok"
AllocatedSlowOk == AllocatedOk /\ last'.path = "slow"

\* C1: an allocate that fails (overflow, limit, or the backing allocator) leaves
\* ptr_, end_, totalAllocatedSize_ and the block list of every arena exactly as
\* they were; one that acquires a block links it and accounts for it together.
C1_AllOrNothing ==
  [][/\ (Allocated /\ last'.res # "ok") =>
          UNCHANGED <<ptr_, end_, totalAllocatedSize_, blocks_, heap>>
     /\ AllocatedSlowOk =>
          /\ Len(blocks_'[last'.a]) = Len(blocks_[last'.a]) + 1
          /\ totalAllocatedSize_'[last'.a] # totalAllocatedSize_[last'.a]]_vars

\* A failed allocate on an arena that already holds blocks and a bump window.
C1_Witness ==
  /\ last.op = "allocate"
  /\ last.res = "oom"
  /\ blocks_[last.a] # <<>>
  /\ ptr_[last.a] # NULL

\* C2: a configured sizeLimit_ is a ceiling on totalAllocatedSize_.
C2_LimitIsCeiling ==
  \A a \in Arenas :
    (pc[a] = "live" /\ sizeLimit_[a] # kNoSizeLimit) =>
      totalAllocatedSize_[a] <= sizeLimit_[a]

\* C3: with a limit L and total T, a slow-path allocate needing more than L - T
\* fails with the limit error and no backing call; one needing at most L - T
\* passes the limit test; one needing exactly L - T that succeeds leaves the
\* total at exactly L.
C3_LimitBoundary ==
  [][\A a \in Arenas, size \in Sizes :
       (/\ Allocated /\ last'.a = a /\ last'.size = size /\ last'.path = "slow"
        /\ sizeLimit_[a] # kNoSizeLimit
        /\ AllocSize(a, size).ok) =>
         LET need == Max(size, minBlockSize_[a]) + HeaderSize
             room == sizeLimit_[a] - totalAllocatedSize_[a]
         IN /\ need > room => (last'.res = "limit" /\ heap' = heap)
            /\ need <= room => last'.res \in {"ok", "oom"}
            /\ (need = room /\ last'.res = "ok") =>
                 totalAllocatedSize_'[a] = sizeLimit_[a]]_vars

\* C4: a live arena's totalAllocatedSize_ is the sum of usable size + header size
\* over the blocks in its list.
C4_TotalIsSumOfBlocks ==
  \A a \in Arenas :
    pc[a] = "live" => totalAllocatedSize_[a] = SumBlocks(blocks_[a])

\* A merge has just put several blocks, one of them big, in one list.
C4_Witness ==
  /\ last.op = "merge"
  /\ Len(blocks_[last.a]) >= 2
  /\ \E i \in 1 .. Len(blocks_[last.a]) : blocks_[last.a][i].big
  /\ totalAllocatedSize_[last.a] = SumBlocks(blocks_[last.a])

\* C5: under allocate the totals and the block lists change only when a block is
\* acquired from the backing allocator; a fast-path allocate changes neither
\* and leaves the backing allocator alone.
C5_TotalChangesOnlyOnAcquire ==
  [][Allocated =>
       /\ (totalAllocatedSize_' # totalAllocatedSize_ \/ blocks_' # blocks_) =>
            (AllocatedSlowOk /\ heap' # heap /\ heap \subseteq heap')
       /\ last'.path = "fast" =>
            UNCHANGED <<totalAllocatedSize_, blocks_, heap>>]_vars

\* A fast-path allocate of a positive size has just been served.
C5_Witness ==
  /\ last.op = "allocate"
  /\ last.path = "fast"
  /\ last.size > 0
  /\ totalAllocatedSize_[last.a] > 0

\* C6 as stated: every successful allocate of size > minBlockSize leaves ptr_
\* and end_ as they were.
C6_BigNeverMovesWindow ==
  [][(AllocatedOk /\ IsBig(last'.a, last'.size)) =>
       UNCHANGED <<ptr_, end_>>]_vars

\* C6, amended: an allocate of size > minBlockSize served by the slow path (the
\* request does not fit the bump window) leaves ptr_ and end_ as they were, so
\* the next allocate that fits the window is served at the old bump pointer.
C6_BigSlowKeepsWindow ==
  [][/\ (AllocatedSlowOk /\ IsBig(last'.a, last'.size)) =>
          UNCHANGED <<ptr_, end_>>
     /\ (/\ last.op = "allocate" /\ last.res = "ok" /\ last.path = "slow"
         /\ IsBig(last.a, last.size)
         /\ AllocatedOk /\ last'.a = last.a /\ last'.path = "fast") =>
          (last'.ret = ptr_[last.a] /\ end_' = end_)]_vars

\* A big block has just been acquired by an arena whose bump window has room left.
C6_Witness ==
  /\ last.op = "allocate" /\ last.res = "ok" /\ last.path = "slow"
  /\ IsBig(last.a, last.size)
  /\ ptr_[last.a] # NULL
  /\ ptr_[last.a] < end_[last.a]

\* The bytes of a handed-out range.
Range(r) == r.p .. (r.p + r.n - 1)

\* C7: the ranges an arena has handed out are pairwise disjoint, none was handed
\* out twice, and each lies inside the usable region of one block of the arena.
C7_RangesDisjointInsideBlocks ==
  \A a \in Arenas :
    pc[a] = "live" =>
      /\ \A r \in allocs[a] : ~r.again
      /\ \A r1 \in allocs[a], r2 \in allocs[a] :
           r1 # r2 => Range(r1) \cap Range(r2) = {}
      /\ \A r \in allocs[a] :
           \E i \in 1 .. Len(blocks_[a]) :
             /\ BlockStart(blocks_[a][i]) <= r.p
             /\ r.p + r.n <= BlockEnd(blocks_[a][i])

\* An arena holds ranges from the slow path, the fast path and a big block.
C7_Witness ==
  /\ last.op = "allocate" /\ last.res = "ok" /\ last.path = "fast" /\ last.size > 0
  /\ Cardinality(allocs[last.a]) >= 3
  /\ \E i \in 1 .. Len(blocks_[last.a]) : blocks_[last.a][i].big

\* C8: A.merge(B) adds B's total to A's, zeroes B's total, nulls B's ptr_ and
\* end_, empties B's list and leaves in A's list exactly the blocks of both.
C8_MergePostcondition ==
  [][\A a \in Arenas, b \in Arenas :
       (last'.op = "merge" /\ last'.a = a /\ last'.other = b /\ a # b) =>
         /\ totalAllocatedSize_'[a] = totalAllocatedSize_[a] + totalAllocatedSize_[b]
         /\ totalAllocatedSize_'[b] = 0
         /\ ptr_'[b] = NULL /\ end_'[b] = NULL
         /\ blocks_'[b] = <<>>
         /\ BlockSet(blocks_'[a]) = BlockSet(blocks_[a]) \cup BlockSet(blocks_[b])
         /\ Len(blocks_'[a]) = Len(blocks_[a]) + Len(blocks_[b])]_vars

\* A merge of two arenas that both held blocks has just happened.
C8_Witness ==
  /\ last.op = "merge"
  /\ blocks_[last.other] = <<>>
  /\ totalAllocatedSize_[last.other] = 0
  /\ Len(blocks_[last.a]) >= 2
  /\ ptr_[last.a] # NULL
  /\ BlockStart(Head(blocks_[last.a])) > ptr_[last.a]

\* The places (arena, index) of a block in the lists.
Places(blk) ==
  {<<a, i>> \in Arenas \X (1 .. MemSize) :
     i <= Len(blocks_[a]) /\ blocks_[a][i] = blk}

\* Every block not yet deallocated is in exactly one list, once, and every listed
\* block is one the backing allocator still holds out; no block is freed twice.
Owned ==
  /\ \A blk \in heap : Cardinality(Places(blk)) = 1
  /\ \A a \in Arenas : BlockSet(blocks_[a]) \subseteq heap
  /\ ~doubleFree

\* C9: block ownership is exclusive, and a block is deallocated only by the
\* destructor of the arena whose list holds it, so a donor's destruction after
\* a merge deallocates nothing it gave away.
C9_ExclusiveOwnership ==
  [][/\ Owned'
     /\ \A blk \in heap \ heap' :
          /\ last'.op = "dtor_step"
          /\ pc[last'.a] = "destroying"
          /\ blocks_[last'.a] # <<>>
          /\ Head(blocks_[last'.a]) = blk]_vars

\* A donor has been destroyed after a merge (the recipient's front block is not
\* its bump block) and the recipient still owns every block.
C9_Witness ==
  \E a \in Arenas, b \in Arenas :
    /\ pc[b] = "dead" /\ pc[a] = "live"
    /\ Len(blocks_[a]) >= 2
    /\ ptr_[a] # NULL
    /\ BlockEnd(Head(blocks_[a])) # end_[a]
    /\ ~Head(blocks_[a]).big
    /\ BlockSet(blocks_[a]) \subseteq heap

\* C10: a destructor that has begun ends, with the list empty and every block the
\* arena owned when it began handed to deallocate.
C10_DestructorTerminates ==
  \A a \in Arenas :
    (pc[a] = "destroying") ~>
      (pc[a] = "dead" /\ blocks_[a] = <<>> /\ pending[a] = {})

\* A destructor is under way: the front block is gone and a big one remains.
C10_Witness ==
  /\ last.op = "dtor_step"
  /\ pc[last.a] = "destroying"
  /\ \E i \in 1 .. Len(blocks_[last.a]) : blocks_[last.a][i].big

\* C11: the slow path adds max(size, minBlockSize) and the header size with an
\* overflow check: when the true sum does not fit the word the call fails with
\* the overflow error, whatever the limit, without a backing call and with the
\* arena unchanged; when it fits, the size used is the true sum.
C11_CheckedBlockSize ==
  [][\A a \in Arenas, size \in Sizes :
       (Allocated /\ last'.a = a /\ last'.size = size /\ last'.path = "slow") =>
         LET sum == Max(size, minBlockSize_[a]) + HeaderSize
         IN /\ sum >= Word =>
                 /\ last'.res = "overflow"
                 /\ UNCHANGED <<ptr_, end_, totalAllocatedSize_, blocks_, heap>>
            /\ sum < Word =>
                 /\ last'.res # "overflow"
                 /\ AllocSize(a, size).ok
                 /\ AllocSize(a, size).val = sum]_vars

\* An overflowing request has just failed on an arena that has a limit and a block.
C11_Witness ==
  /\ last.op = "allocate"
  /\ last.res = "overflow"
  /\ last.size = WordMax
  /\ sizeLimit_[last.a] # kNoSizeLimit
  /\ blocks_[last.a] # <<>>

\* ptr_ and end_ of arena a describe the i-th block of its list, a normal one.
WindowAt(a, i) ==
  /\ ~blocks_[a][i].big
  /\ end_[a] = BlockEnd(blocks_[a][i])
  /\ BlockStart(blocks_[a][i]) <= ptr_[a]
  /\ ptr_[a] <= end_[a]

WindowInList(a) == \E i \in 1 .. Len(blocks_[a]) : WindowAt(a, i)
WindowIsFront(a) == blocks_[a] # <<>> /\ WindowAt(a, 1)
HasWindow(a) == ptr_[a] # NULL \/ end_[a] # NULL
HasNormalBlock(a) == \E i \in 1 .. Len(blocks_[a]) : ~blocks_[a][i].big

C13_NullIffNoNormalBlock ==
  \A a \in Arenas :
    pc[a] = "live" =>
      /\ ptr_[a] = NULL <=> end_[a] = NULL
      /\ ptr_[a] # NULL => ptr_[a] <= end_[a]
      /\ ptr_[a] = NULL <=> ~HasNormalBlock(a)

\* C13, amended: ptr_ and end_ are both null or both non-null, ptr_ <= end_, non-
\* null only when the list holds a normal block; and null exactly when it holds
\* none for as long as no other arena has been merged into this one.
C13_NullIffUntilMerge ==
  [][\A a \in Arenas :
       pc'[a] = "live" =>
         /\ ptr_'[a] = NULL <=> end_'[a] = NULL
         /\ ptr_'[a] # NULL => (ptr_'[a] <= end_'[a] /\ HasNormalBlock(a)')
         /\ (/\ ptr_[a] = NULL <=> ~HasNormalBlock(a)
             /\ ~(last'.op = "merge" /\ last'.a = a)) =>
              (ptr_'[a] = NULL <=> ~HasNormalBlock(a)')]_vars

\* An arena without a bump window has just been given a normal block by a merge.
C13_Witness ==
  /\ last.op = "merge"
  /\ ptr_[last.a] = NULL /\ end_[last.a] = NULL
  /\ HasNormalBlock(last.a)

\* The block a slow-path allocate has just acquired for arena a.
NewBlocks(a) == BlockSet(blocks_'[a]) \ BlockSet(blocks_[a])

\* The pointer just returned is inside the data region of block blk.
ReturnedInside(blk) == BlockStart(blk) <= last'.ret /\ last'.ret < BlockEnd(blk)

\* What the acquisition of a dedicated block for a request of size bytes does.
BigAcquired(a, size) ==
  \E blk \in NewBlocks(a) :
    /\ NewBlocks(a) = {blk}
    /\ blk \notin heap /\ heap' = heap \cup {blk}
    /\ blk.usable = size
    /\ totalAllocatedSize_'[a] = totalAllocatedSize_[a] + size + HeaderSize
    /\ blocks_'[a] = Append(blocks_[a], blk)
    /\ last'.ret = BlockStart(blk)

\* No allocate on an arena returns memory inside a big block the arena held before.
NoReuseOfBig ==
  AllocatedOk =>
    \A i \in 1 .. Len(blocks_[last'.a]) :
      blocks_[last'.a][i].big => ~ReturnedInside(blocks_[last'.a][i])

\* C14 as stated: every successful allocate of size > minBlockSize acquires a
\* dedicated block of exactly that size, appended at the back, and returns its
\* start; the block is never used by a later allocate.
C14_BigAcquiresBlock ==
  [][/\ \A a \in Arenas, size \in Sizes :
          (AllocatedOk /\ last'.a = a /\ last'.size = size /\ IsBig(a, size)) =>
            BigAcquired(a, size)
     /\ NoReuseOfBig]_vars

\* C14, amended: a successful allocate of size > minBlockSize that the slow path
\* serves acquires a dedicated block of exactly that size, appended at the back,
\* and returns its start; the block is never used by a later allocate.
C14_BigSlowAcquiresBlock ==
  [][/\ \A a \in Arenas, size \in Sizes :
          (AllocatedSlowOk /\ last'.a = a /\ last'.size = size /\ IsBig(a, size)) =>
            BigAcquired(a, size)
     /\ NoReuseOfBig]_vars

\* A fast-path allocate has just been served by an arena that holds a big block
\* behind its bump block.
C14_Witness ==
  /\ last.op = "allocate" /\ last.res = "ok" /\ last.path = "fast" /\ last.size > 0
  /\ Len(blocks_[last.a]) >= 2
  /\ blocks_[last.a][Len(blocks_[last.a])].big
  /\ WindowIsFront(last.a)

\* The range just returned lies in the bump window as it was, or in a block that
\* was not held before.
ServedFromWindowOrNewBlock ==
  AllocatedOk =>
    \/ /\ last'.path = "fast"
       /\ ptr_[last'.a] <= last'.ret
       /\ last'.ret + last'.size <= end_[last'.a]
    \/ /\ last'.path = "slow"
       /\ \E blk \in NewBlocks(last'.a) :
            blk \notin heap /\ last'.ret = BlockStart(blk)

C16_BumpInCallOrder ==
  [][\A a \in Arenas, size \in Sizes :
       (Allocated /\ last'.a = a /\ last'.size = size) =>
         /\ (ptr_[a] # NULL /\ end_[a] - ptr_[a] >= size) =>
              /\ last'.res = "ok" /\ last'.path = "fast"
              /\ last'.ret = ptr_[a]
              /\ ptr_'[a] = ptr_[a] + size
              /\ end_'[a] = end_[a]
         /\ (/\ last.op = "allocate" /\ last.a = a /\ last.res = "ok"
             /\ last.path = "slow" /\ ~IsBig(a, last.size)
             /\ last.size + size <= Head(blocks_[a]).usable) =>
              /\ last'.res = "ok"
              /\ last'.ret = last.ret + last.size
              /\ ptr_'[a] = last.ret + last.size + size]_vars

\* A fast-path allocate has just used up the bump window exactly.
C16_Witness ==
  /\ last.op = "allocate" /\ last.res = "ok" /\ last.path = "fast" /\ last.size > 0
  /\ ptr_[last.a] = end_[last.a]
  /\ last.ret > BlockStart(Head(blocks_[last.a]))

\* C17: after A.merge(B), B is as freshly constructed: its list is empty and its
\* total 0, its next allocate of any size takes the slow path and, when it
\* succeeds, returns the start of a block acquired then; and every allocate
\* returns memory of a block in the list of the arena it was called on, with
\* that arena's total counting the blocks of its list.
C17_DonorIsFresh ==
  [][/\ \A a \in Arenas, b \in Arenas :
          (last'.op = "merge" /\ last'.a = a /\ last'.other = b /\ a # b) =>
            /\ blocks_'[b] = <<>> /\ totalAllocatedSize_'[b] = 0
            /\ ptr_'[b] = NULL /\ end_'[b] = NULL
     /\ \A b \in Arenas :
          (/\ last.op = "merge" /\ last.other = b /\ last.a # b
           /\ Allocated /\ last'.a = b) =>
            /\ last'.path = "slow"
            /\ last'.res = "ok" =>
                 \E blk \in heap' \ heap :
                   /\ blocks_'[b] = <<blk>>
                   /\ last'.ret = BlockStart(blk)
                   /\ totalAllocatedSize_'[b] = blk.usable + HeaderSize
     /\ AllocatedOk =>
          /\ \E blk \in BlockSet(blocks_'[last'.a]) :
               /\ BlockStart(blk) <= last'.ret
               /\ last'.ret + last'.size <= BlockEnd(blk)
          /\ totalAllocatedSize_'[last'.a] = SumBlocks(blocks_'[last'.a])]_vars

\* The donor of a merge that gave a normal block away has just allocated zero
\* bytes and holds one block of its own.
C17_Witness ==
  \E a \in Arenas :
    /\ last.op = "allocate" /\ last.res = "ok" /\ last.size = 0 /\ last.a # a
    /\ Len(blocks_[last.a]) = 1
    /\ pc[a] = "live"
    /\ ~HasWindow(a) /\ HasNormalBlock(a)

\* The step just taken was a.merge(b) with a and b distinct.
Merged(a, b) == last'.op = "merge" /\ last'.a = a /\ last'.other = b /\ a # b

\* C18: A.merge(B) leaves in A's list B's blocks in their order followed by A's
\* blocks in their order, and neither acquires nor deallocates a block.
C18_MergeIsRelink ==
  [][\A a \in Arenas, b \in Arenas :
       Merged(a, b) =>
         /\ blocks_'[a] = blocks_[b] \o blocks_[a]
         /\ blocks_'[b] = <<>>
         /\ heap' = heap
         /\ doubleFree' = doubleFree]_vars

\* A merge has just put the donor's big block in front of the recipient's bump block.
C18_Witness ==
  /\ last.op = "merge"
  /\ Len(blocks_[last.a]) >= 2
  /\ Head(blocks_[last.a]).big
  /\ HasWindow(last.a)
  /\ WindowInList(last.a)

\* C19: non-null ptr_/end_ of a live arena lie in one normal block that is in
\* that arena's list, in no other list, and not deallocated, with
\* start <= ptr_ <= end_ = start + usable size.
C19_WindowInOwnBlock ==
  \A a \in Arenas :
    (pc[a] = "live" /\ HasWindow(a)) =>
      /\ ptr_[a] # NULL /\ end_[a] # NULL
      /\ \E i \in 1 .. Len(blocks_[a]) :
           /\ WindowAt(a, i)
           /\ blocks_[a][i] \in heap
           /\ \A b \in Arenas \ {a} : blocks_[a][i] \notin BlockSet(blocks_[b])

\* Both arenas hold a bump window, one of them behind blocks merged in or with
\* part of it used.
C19_Witness ==
  /\ \A a \in Arenas : pc[a] = "live" /\ HasWindow(a) /\ WindowInList(a)
  /\ \E a \in Arenas : ptr_[a] > BlockStart(Head(blocks_[a]))

\* C20: A.merge(B) leaves A's ptr_ and end_ and both arenas' minBlockSize and
\* sizeLimit as they were, and A's window on none of the blocks received; the
\* allocate on A that follows and fits is served at that ptr_; and every
\* allocate is served from the window as it was or from a block acquired then.
C20_MergeKeepsRecipientWindow ==
  [][/\ \A a \in Arenas, b \in Arenas :
          Merged(a, b) =>
            /\ ptr_'[a] = ptr_[a] /\ end_'[a] = end_[a]
            /\ UNCHANGED <<minBlockSize_, sizeLimit_>>
            /\ \A blk \in BlockSet(blocks_[b]) :
                 ptr_'[a] # NULL =>
                   ~(BlockStart(blk) <= ptr_'[a] /\ ptr_'[a] <= BlockEnd(blk))
     /\ \A a \in Arenas, size \in Sizes :
          (/\ last.op = "merge" /\ last.a = a
           /\ Allocated /\ last'.a = a /\ last'.size = size
           /\ ptr_[a] # NULL /\ end_[a] - ptr_[a] >= size) =>
            /\ last'.res = "ok" /\ last'.ret = ptr_[a]
            /\ \E i \in 1 .. Len(blocks_[a]) :
                 WindowAt(a, i) /\ (WindowAt(a, i))'
     /\ ServedFromWindowOrNewBlock]_vars

\* The recipient of a merge has just been served from its own bump block, which
\* now lies behind the blocks it received.
C20_Witness ==
  /\ last.op = "allocate" /\ last.res = "ok" /\ last.path = "fast" /\ last.size > 0
  /\ WindowInList(last.a)
  /\ ~WindowIsFront(last.a)
====
